---- MODULE Spec2Model ----
(***************************************************************************)
(* Model of the link registry of gardk/linker: the handlers resolve,       *)
(* reverse and generate/register running as concurrent request tasks       *)
(* against a relational store links(slug PRIMARY KEY, url UNIQUE, hidden), *)
(* a bounded moka cache and the prometheus counter families.               *)
(*                                                                         *)
(* The repository holds three revisions of the same service:               *)
(*   "lib"    src/handlers.rs         (Registry with hits and misses)      *)
(*   "server" src/server/handlers.rs  (register with the hidden flag)      *)
(*   "main"   src/main.rs             (generate inside one transaction)    *)
(* The revision is fixed at start-up (variable rev).                       *)
(*                                                                         *)
(* Every .await of a handler is a suspension point: the store executes the *)
(* statement in one step (Store* actions) and the task observes the answer *)
(* in a later step, so other tasks, evictions and cancellation interleave  *)
(* in between.  A store call either takes effect and answers, or fails     *)
(* without effect.                                                         *)
(***************************************************************************)
EXTENDS Integers, Sequences, FiniteSets, TLC

\* ------------------------------------------------------------------ bounds
NumTasks == 2
MaxRequests == 3

\* -------------------------------------------------------- program constants
LENGTH == 10
RetriesLib == 2
RetriesMain == 3

Tasks == 1..NumTasks
Revisions == {"lib", "server", "main"}

\* ------------------------------------------------------------------- slugs
\* The symbols the modelled random source draws (a sample of the 62
\* alphanumeric symbols) and the symbol streams it yields.
\* rand::distributions::Alphanumeric: the 62 symbols 0-9, a-z, A-Z.
Alphanumeric ==
    {"0", "1", "2", "3", "4", "5", "6", "7", "8", "9",
     "a", "b", "c", "d", "e", "f", "g", "h", "i", "j", "k", "l", "m",
     "n", "o", "p", "q", "r", "s", "t", "u", "v", "w", "x", "y", "z",
     "A", "B", "C", "D", "E", "F", "G", "H", "I", "J", "K", "L", "M",
     "N", "O", "P", "Q", "R", "S", "T", "U", "V", "W", "X", "Y", "Z"}

RngSymbols == {"0", "a"}
RngStreams == {[i \in 1..(LENGTH + 1) |-> c] : c \in RngSymbols}

\* Slug::from_rng: take(LENGTH) of the stream, pushed one by one.
RECURSIVE PushAll(_, _, _)
PushAll(this, stream, n) ==
    IF n = 0 \/ stream = <<>>
    THEN this
    ELSE PushAll(Append(this, Head(stream)), Tail(stream), n - 1)

\* Mutant: the stream is pushed without take(LENGTH).
from_rng_untaken(stream) == PushAll(<<>>, stream, Len(stream))

from_rng(stream) == PushAll(<<>>, stream, LENGTH)

NoSlug == <<>>
Slugs == {from_rng(s) : s \in RngStreams}

\* Mutant: a capacity one short of LENGTH.
ArrayString_from_short(text) == IF Len(text) < LENGTH THEN {text} ELSE {}

\* ArrayString::<LENGTH>::from(&str) succeeds iff the text fits the capacity.
ArrayString_from(text) == IF Len(text) <= LENGTH THEN {text} ELSE {}

\* Slug::try_from(&str)
try_from(text) == ArrayString_from(text)

\* Slug::deserialize of a path segment (ArrayString's visitor calls from).
deserialize(text) == ArrayString_from(text)

\* The texts that arrive as the :slug segment of a path: the generated slugs,
\* a shorter text and a longer one.
ShortText == <<"a">>
LongText == [i \in 1..(LENGTH + 1) |-> "a"]
PathTexts == Slugs \cup {ShortText, LongText}

\* -------------------------------------------------------------------- urls
\* What arrives as the url of a request, and Url::parse on it: the parser
\* lower-cases scheme and host and adds the root path; a text without a
\* scheme is rejected.
NoUrl == ""
RawUrls == {"http://a/", "HTTP://A", "http://b/", "nourl"}
UrlParse(raw) ==
    CASE raw = "http://a/" -> "http://a/"
      [] raw = "HTTP://A" -> "http://a/"
      [] raw = "http://b/" -> "http://b/"
      [] OTHER -> NoUrl
Urls == {UrlParse(r) : r \in RawUrls} \ {NoUrl}
HostName == "h"

\* ------------------------------------------------------------------- state
VARIABLES
    rev,            \* the revision that runs
    store,          \* committed rows of links
    tx,             \* per task: the open transaction (main.rs generate)
    cache,          \* moka cache: slug -> (url, hidden)
    http_requests,  \* Family<Labels, Counter>
    cache_hits,     \* Family<Labels, Counter>
    cache_misses,   \* Family<Labels, Counter>
    task,           \* per task: the request it runs and where it stands
    resp,           \* the response the last step sent, if it sent one
    created,        \* history: rows returned by successful creates
    received,       \* history: resolve requests the handler received, by slug
    nreq            \* requests started so far

vars == <<rev, store, tx, cache, http_requests, cache_hits, cache_misses,
          task, resp, created, received, nreq>>

Row(slug, url, hidden) == [slug |-> slug, url |-> url, hidden |-> hidden]

NoTx == [open |-> FALSE, aborted |-> FALSE, pending |-> {}]

NoRes == [kind |-> "no", url |-> NoUrl, slug |-> NoSlug, hidden |-> FALSE]
Res(kind) == [NoRes EXCEPT !.kind = kind]

NoResult == [status |-> "NONE", scheme |-> "", host |-> "", slug |-> NoSlug,
             url |-> NoUrl, indirect |-> FALSE, body |-> {}]
Err(status) == [NoResult EXCEPT !.status = status]

IdleTask ==
    [op |-> "none", pc |-> "idle", slug |-> NoSlug, url |-> NoUrl,
     hidden |-> FALSE, retries |-> 0, res |-> NoRes, result |-> NoResult,
     last |-> "no", after |-> FALSE, hit |-> FALSE, cached |-> FALSE]

\* No response is being sent.
NoResp == IdleTask

\* The response a task sends as it returns: what it ran, and the result.
Response(rec, result) ==
    [rec EXCEPT !.pc = "done", !.res = NoRes, !.result = result]

\* The Path extractor rejected the request: the handler did not run.
Rejected(rec) == [rec EXCEPT !.pc = "rejected"]

\* The request's task panicked: the connection is closed without a response.
Panicked(rec) == [rec EXCEPT !.pc = "panicked", !.res = NoRes]

Free(t) == task[t].pc = "idle"

\* A new request takes the first free task slot.
Takes(t) == Free(t) /\ \A o \in Tasks : Free(o) => t <= o

\* ------------------------------------------------------------------- cache
\* Mutant: a lookup that never finds its entry.
CacheGet_miss(c, slug) == {}

CacheGet(c, slug) == IF slug \in DOMAIN c THEN {c[slug]} ELSE {}

CacheInsert(c, slug, url, hidden) ==
    [s \in DOMAIN c \cup {slug} |->
        IF s = slug THEN [url |-> url, hidden |-> hidden] ELSE c[s]]

CacheRemove(c, slug) == [s \in DOMAIN c \ {slug} |-> c[s]]

\* ----------------------------------------------------------------- metrics
Labels(handler, slug) == [handler |-> handler, slug |-> slug]

\* Family::get_or_create(labels).inc()
Inc(family, labels) ==
    [l \in DOMAIN family \cup {labels} |->
        IF l = labels
        THEN (IF l \in DOMAIN family THEN family[l] + 1 ELSE 1)
        ELSE family[l]]

Count(family, labels) == IF labels \in DOMAIN family THEN family[labels] ELSE 0

\* --------------------------------------------------------------- responses
\* Mutant: every link is answered with the direct redirect.
create_redirect_direct(url, hidden) ==
    [NoResult EXCEPT !.status = "OK", !.url = url, !.indirect = FALSE]

\* create_redirect: a direct redirect unless the link is hidden.
create_redirect(url, hidden) ==
    [NoResult EXCEPT !.status = "OK", !.url = url, !.indirect = hidden]

\* Redirect::permanent(&url) of the revisions without the hidden column.
Redirect_permanent(url) ==
    [NoResult EXCEPT !.status = "OK", !.url = url, !.indirect = FALSE]

Redirect(rv, url, hidden) ==
    IF rv = "server" THEN create_redirect(url, hidden) ELSE Redirect_permanent(url)

\* format!("http://{host}/{slug}") ("https" in main.rs)
FormatLink(rv, host, slug) ==
    [NoResult EXCEPT !.status = "OK",
                     !.scheme = IF rv = "main" THEN "https" ELSE "http",
                     !.host = host, !.slug = slug]

\* --------------------------------------------------------------------- Init
Init ==
    /\ rev \in Revisions
    /\ store = {}
    /\ tx = [t \in Tasks |-> NoTx]
    /\ cache = <<>>
    /\ http_requests = <<>>
    /\ cache_hits = <<>>
    /\ cache_misses = <<>>
    /\ task = [t \in Tasks |-> IdleTask]
    /\ resp = NoResp
    /\ created = {}
    /\ received = <<>>
    /\ nreq = 0

\* ------------------------------------------------------------------ resolve
\* The counters a resolve touches before its first await.
NoLabels == Labels("", NoSlug)

\* Mutant: the hit is not recorded.
resolve_hits_none(rv, family, slug) == family

resolve_hits(rv, family, slug) ==
    IF rv = "lib" THEN Inc(family, Labels("resolve", slug)) ELSE family

resolve_misses(rv, family, slug) ==
    CASE rv = "lib" -> Inc(family, Labels("resolve", slug))
      [] rv = "server" -> Inc(family, NoLabels)
      [] OTHER -> family

\* Mutant: an absent row is cached as an empty target (negative caching).
resolve_match_negative(rv, c, slug, res) ==
    CASE res.kind = "row" ->
            [cache |-> CacheInsert(c, slug, res.url, res.hidden),
             result |-> Redirect(rv, res.url, res.hidden)]
      [] res.kind = "none" ->
            [cache |-> CacheInsert(c, slug, NoUrl, FALSE),
             result |-> Err("NOT_FOUND")]
      [] OTHER -> [cache |-> c, result |-> Err("SERVICE_UNAVAILABLE")]

\* The match on the answer of SELECT url[, hidden] FROM links WHERE slug = $1:
\* the cache after it and the response.
resolve_match(rv, c, slug, res) ==
    CASE res.kind = "row" ->
            [cache |-> CacheInsert(c, slug, res.url, res.hidden),
             result |-> Redirect(rv, res.url, res.hidden)]
      [] res.kind = "none" -> [cache |-> c, result |-> Err("NOT_FOUND")]
      [] OTHER -> [cache |-> c, result |-> Err("SERVICE_UNAVAILABLE")]

\* The request counter of resolve.
\* Mutant: the label leaves the slug out.
resolve_requests_handler(family, slug) == Inc(family, Labels("resolve", NoSlug))

resolve_requests(family, slug) == Inc(family, Labels("resolve", slug))

\* Path<Slug>, then resolve up to its first await: count the request, then
\* the cache fast path or the store query.
ResolveStart(t, text) ==
    /\ Takes(t)
    /\ nreq < MaxRequests
    /\ nreq' = nreq + 1
    /\ IF deserialize(text) = {}
       THEN /\ resp' = Rejected([IdleTask EXCEPT !.op = "resolve",
                                                 !.slug = text])
            /\ UNCHANGED <<task, http_requests, cache_hits, cache_misses,
                           received>>
       ELSE \E slug \in deserialize(text) :
            /\ received' = [s \in DOMAIN received \cup {slug} |->
                    Count(received, s) + (IF s = slug THEN 1 ELSE 0)]
            /\ http_requests' = resolve_requests(http_requests, slug)
            /\ LET hitv == CacheGet(cache, slug)
                   base == [IdleTask EXCEPT !.op = "resolve", !.slug = slug,
                               !.after = \E r \in created : r.slug = slug,
                               !.cached = slug \in DOMAIN cache]
               IN IF hitv # {}
                  THEN /\ cache_hits' = resolve_hits(rev, cache_hits, slug)
                       /\ cache_misses' = cache_misses
                       /\ \E e \in hitv :
                            resp' = Response([base EXCEPT !.hit = TRUE],
                                             Redirect(rev, e.url, e.hidden))
                       /\ task' = task
                  ELSE /\ cache_hits' = cache_hits
                       /\ cache_misses' = resolve_misses(rev, cache_misses, slug)
                       /\ task' = [task EXCEPT ![t] =
                                        [base EXCEPT !.pc = "query"]]
                       /\ resp' = NoResp
    /\ UNCHANGED <<rev, store, tx, cache, created>>

\* The store runs a point select of a task waiting in "query"; the query may
\* fail.
\* Mutant: the select by slug without its WHERE clause.
SelectBySlug_any(rows, slug) ==
    IF rows # {}
    THEN {[NoRes EXCEPT !.kind = "row", !.url = r.url, !.slug = r.slug,
                        !.hidden = r.hidden] : r \in rows}
    ELSE {Res("none")}

SelectBySlug(rows, slug) ==
    IF \E r \in rows : r.slug = slug
    THEN {[NoRes EXCEPT !.kind = "row", !.url = r.url, !.slug = r.slug,
                        !.hidden = r.hidden] : r \in {x \in rows : x.slug = slug}}
    ELSE {Res("none")}

\* Mutant: the select by url without its WHERE clause.
SelectByUrl_any(rows, url) ==
    IF rows # {}
    THEN {[NoRes EXCEPT !.kind = "row", !.url = r.url, !.slug = r.slug,
                        !.hidden = r.hidden] : r \in rows}
    ELSE {Res("none")}

SelectByUrl(rows, url) ==
    IF \E r \in rows : r.url = url
    THEN {[NoRes EXCEPT !.kind = "row", !.url = r.url, !.slug = r.slug,
                        !.hidden = r.hidden] : r \in {x \in rows : x.url = url}}
    ELSE {Res("none")}

StoreSelect(t) ==
    /\ task[t].pc = "query"
    /\ \E res \in (IF task[t].op = "resolve"
                   THEN SelectBySlug(store, task[t].slug)
                   ELSE SelectByUrl(store, task[t].url)) \cup {Res("err")} :
          task' = [task EXCEPT ![t].pc = "fetched", ![t].res = res,
                               ![t].last = res.kind]
    /\ resp' = NoResp
    /\ UNCHANGED <<rev, store, tx, cache, http_requests, cache_hits,
                   cache_misses, created, nreq, received>>

\* resolve after the await.
ResolveFinish(t) ==
    /\ task[t].op = "resolve"
    /\ task[t].pc = "fetched"
    /\ LET m == resolve_match(rev, cache, task[t].slug, task[t].res)
       IN /\ cache' = m.cache
          /\ resp' = Response(task[t], m.result)
          /\ task' = [task EXCEPT ![t] = IdleTask]
    /\ UNCHANGED <<rev, store, tx, http_requests, cache_hits, cache_misses,
                   created, nreq, received>>

\* ------------------------------------------------------------------ reverse
\* reverse up to its await: only the query is issued (Path<Url> has parsed
\* the url).
ReverseStart(t, raw) ==
    /\ Takes(t)
    /\ nreq < MaxRequests
    /\ UrlParse(raw) # NoUrl
    /\ nreq' = nreq + 1
    /\ task' = [task EXCEPT ![t] =
            [IdleTask EXCEPT !.op = "reverse", !.pc = "query",
                !.url = UrlParse(raw),
                !.after = \E r \in created : r.url = UrlParse(raw)]]
    /\ resp' = NoResp
    /\ UNCHANGED <<rev, store, tx, cache, http_requests, cache_hits,
                   cache_misses, created, received>>

\* Mutant: a failed query is answered like an absent row.
reverse_match_swallow(rv, family, res) ==
    CASE res.kind = "row" ->
            [http_requests |->
                IF rv = "main" THEN family
                ELSE Inc(family, Labels("reverse", res.slug)),
             panic |-> FALSE,
             result |-> [NoResult EXCEPT !.status = "OK", !.slug = res.slug]]
      [] OTHER ->
            [http_requests |-> family, panic |-> FALSE,
             result |-> Err("NOT_FOUND")]

\* The match on the answer of SELECT slug FROM links WHERE url = $1.
reverse_match(rv, family, res) ==
    CASE res.kind = "row" ->
            IF rv = "main"
            THEN [http_requests |-> family, panic |-> FALSE,
                  result |-> [NoResult EXCEPT !.status = "OK", !.slug = res.slug]]
            ELSE IF try_from(res.slug) = {}
                 THEN [http_requests |-> family, panic |-> TRUE,
                       result |-> NoResult]
                 ELSE [http_requests |->
                            Inc(family, Labels("reverse",
                                    CHOOSE s \in try_from(res.slug) : TRUE)),
                       panic |-> FALSE,
                       result |-> [NoResult EXCEPT !.status = "OK",
                                                   !.slug = res.slug]]
      [] res.kind = "none" ->
            [http_requests |-> family, panic |-> FALSE,
             result |-> Err("NOT_FOUND")]
      [] OTHER ->
            [http_requests |-> family, panic |-> FALSE,
             result |-> Err("SERVICE_UNAVAILABLE")]

\* Mutant: the row a reverse lookup found is put in the cache.
reverse_cache_insert(c, res) ==
    IF res.kind = "row" THEN CacheInsert(c, res.slug, res.url, res.hidden) ELSE c

\* The cache after reverse: the handler does not take it from the state.
reverse_cache(c, res) == c

ReverseFinish(t) ==
    /\ task[t].op = "reverse"
    /\ task[t].pc = "fetched"
    /\ cache' = reverse_cache(cache, task[t].res)
    /\ LET m == reverse_match(rev, http_requests, task[t].res)
       IN /\ http_requests' = m.http_requests
          /\ resp' = IF m.panic THEN Panicked(task[t])
                             ELSE Response(task[t], m.result)
          /\ task' = [task EXCEPT ![t] = IdleTask]
    /\ UNCHANGED <<rev, store, tx, cache_hits, cache_misses, created,
                   nreq, received>>

\* ------------------------------------------------------------------ metrics
\* Mutant: the families are cleared once they are rendered.
Rendered_reset(family) == <<>>

\* A family after encode has read it.
Rendered(family) == family

\* The samples encode writes for one family: a line per label set.
Samples(name, family) ==
    {[name |-> name, labels |-> l, value |-> family[l]] : l \in DOMAIN family}

\* encoding::text::encode(&mut buffer, &registry): the registered families
\* (main.rs registers linker_http_requests only).
encode(rv, requests, hits, misses) ==
    Samples("linker_http_requests", requests)
        \cup (IF rv = "main" THEN {}
              ELSE Samples("linker_cache_hits", hits)
                     \cup Samples("linker_cache_misses", misses))

\* metrics / admin_metrics: the handler has no await; writing into a String
\* does not fail, so the snapshot is always answered.
Metrics ==
    /\ nreq < MaxRequests
    /\ nreq' = nreq + 1
    /\ resp' = Response([IdleTask EXCEPT !.op = "metrics"],
                [NoResult EXCEPT !.status = "OK",
                    !.body = encode(rev, http_requests, cache_hits,
                                    cache_misses)])
    /\ http_requests' = Rendered(http_requests)
    /\ cache_hits' = Rendered(cache_hits)
    /\ cache_misses' = Rendered(cache_misses)
    /\ UNCHANGED <<rev, store, tx, cache, task, created, received>>

\* ------------------------------------------------------- generate / register
\* Mutant: `retries < 1`, one retry fewer.
RetryBound_one(rv) == IF rv = "main" THEN RetriesMain - 1 ELSE RetriesLib - 1

\* `retries < 2` (`retries < 3` in main.rs)
RetryBound(rv) == IF rv = "main" THEN RetriesMain ELSE RetriesLib

\* Mutant: main.rs populates the cache on the INSERT's answer, without the
\* commit.
generate_match_nocommit(rv, kind, retries) ==
    CASE kind = "ok" -> "insert"
      [] kind = "links_pkey" /\ retries < RetryBound(rv) -> "retry"
      [] kind = "links_url_key" -> "CONFLICT"
      [] OTHER -> "SERVICE_UNAVAILABLE"

\* Mutant: a duplicate url is not an error (INSERT ... ON CONFLICT (url) DO
\* NOTHING without a look at rows_affected).
generate_match_do_nothing(rv, kind, retries) ==
    CASE kind \in {"ok", "links_url_key"} ->
            IF rv = "main" THEN "commit" ELSE "insert"
      [] kind = "links_pkey" /\ retries < RetryBound(rv) -> "retry"
      [] OTHER -> "SERVICE_UNAVAILABLE"

\* Mutant: `retries <= 2`, one insert too many.
generate_match_off_by_one(rv, kind, retries) ==
    CASE kind = "ok" -> IF rv = "main" THEN "commit" ELSE "insert"
      [] kind = "links_pkey" /\ retries <= RetryBound(rv) -> "retry"
      [] kind = "links_url_key" -> "CONFLICT"
      [] OTHER -> "SERVICE_UNAVAILABLE"

\* Mutant: a primary-key conflict that cannot be retried is a Conflict.
generate_match_pk_conflict(rv, kind, retries) ==
    CASE kind = "ok" -> IF rv = "main" THEN "commit" ELSE "insert"
      [] kind = "links_pkey" /\ retries < RetryBound(rv) -> "retry"
      [] kind \in {"links_pkey", "links_url_key"} -> "CONFLICT"
      [] OTHER -> "SERVICE_UNAVAILABLE"

\* Mutant: every constraint violation is retried.
generate_match_retry_any(rv, kind, retries) ==
    CASE kind = "ok" -> IF rv = "main" THEN "commit" ELSE "insert"
      [] kind \in {"links_pkey", "links_url_key"} /\ retries < RetryBound(rv) ->
            "retry"
      [] kind = "links_url_key" -> "CONFLICT"
      [] OTHER -> "SERVICE_UNAVAILABLE"

\* The match on the answer of the INSERT: what the handler does next
\* ("commit", "insert" the cache and answer, "retry", or fail with a status).
generate_match(rv, kind, retries) ==
    CASE kind = "ok" -> IF rv = "main" THEN "commit" ELSE "insert"
      [] kind = "links_pkey" /\ retries < RetryBound(rv) -> "retry"
      [] kind = "links_url_key" -> "CONFLICT"
      [] OTHER -> "SERVICE_UNAVAILABLE"

\* The status of a failed tx.commit() in main.rs.
commit_failed == "INTERNAL_SERVER_ERROR"

\* The status of a failed pool.begin() in main.rs.
begin_failed == "SERVICE_UNAVAILABLE"

\* The status register gives a form whose url does not parse.
parse_failed == "BAD_REQUEST"

\* The cache after a confirmed insert (lib, server) or commit (main).
generate_cache(c, slug, url, hidden) == CacheInsert(c, slug, url, hidden)

\* The form or path a create request carries: the hidden flag exists in the
\* server revision only; the Path<Url> extractor of the other two hands the
\* handler a parsed url.
\* The forms register is given: each url of the sample comes with one value
\* of the hidden flag.
RegisterForms ==
    {<<"http://a/", FALSE>>, <<"HTTP://A", FALSE>>, <<"http://b/", TRUE>>,
     <<"nourl", FALSE>>}

CreateInputs(rv) ==
    IF rv = "server"
    THEN RegisterForms
    ELSE {r \in RawUrls : UrlParse(r) # NoUrl} \X {FALSE}

\* generate/register up to the first await.
CreateStart(t, raw, hidden, stream) ==
    /\ Takes(t)
    /\ nreq < MaxRequests
    /\ <<raw, hidden>> \in CreateInputs(rev)
    /\ nreq' = nreq + 1
    /\ LET url == UrlParse(raw)
           base == [IdleTask EXCEPT !.op = "create", !.url = url,
                       !.hidden = hidden,
                       !.after = \E r \in store : r.url = url]
       IN CASE url = NoUrl ->
                 /\ stream = CHOOSE x \in RngStreams : TRUE
                 /\ resp' = Response(base, Err(parse_failed))
                 /\ task' = task
            [] url # NoUrl /\ rev = "main" ->
                 /\ stream = CHOOSE x \in RngStreams : TRUE
                 /\ task' = [task EXCEPT ![t] = [base EXCEPT !.pc = "beginning"]]
                 /\ resp' = NoResp
            [] OTHER ->
                 /\ task' = [task EXCEPT ![t] =
                        [base EXCEPT !.pc = "inserting", !.slug = from_rng(stream)]]
                 /\ resp' = NoResp
    /\ UNCHANGED <<rev, store, tx, cache, http_requests, cache_hits,
                   cache_misses, created, received>>

\* The store answers pool.begin().
StoreBegin(t) ==
    /\ task[t].pc = "beginning"
    /\ \E ok \in BOOLEAN :
        /\ task' = [task EXCEPT ![t].pc = "begun",
                        ![t].res = Res(IF ok THEN "ok" ELSE "err"),
                        ![t].last = IF ok THEN "begin" ELSE "err"]
        /\ tx' = [tx EXCEPT ![t] = [NoTx EXCEPT !.open = ok]]
    /\ resp' = NoResp
    /\ UNCHANGED <<rev, store, cache, http_requests, cache_hits, cache_misses,
                   created, nreq, received>>

\* main.rs generate after pool.begin().await.
GenerateBegun(t, stream) ==
    /\ task[t].pc = "begun"
    /\ IF task[t].res.kind = "ok"
       THEN /\ task' = [task EXCEPT ![t].pc = "inserting", ![t].res = NoRes,
                                    ![t].slug = from_rng(stream)]
            /\ resp' = NoResp
       ELSE /\ stream = CHOOSE x \in RngStreams : TRUE
            /\ resp' = Response(task[t], Err(begin_failed))
            /\ task' = [task EXCEPT ![t] = IdleTask]
    /\ UNCHANGED <<rev, store, tx, cache, http_requests, cache_hits,
                   cache_misses, created, nreq, received>>

\* The rows an insert of task t is checked against: committed rows, and the
\* rows other open transactions hold (on those the insert waits).
PendingOthers(t) == UNION {tx[o].pending : o \in Tasks \ {t}}

Violated(rows, slug, url) ==
    (IF \E r \in rows : r.slug = slug THEN {"links_pkey"} ELSE {})
        \cup (IF \E r \in rows : r.url = url THEN {"links_url_key"} ELSE {})

\* The answers the store may give to INSERT INTO links VALUES (slug, url,
\* hidden): a violated constraint, any other error, or success.  A statement
\* in a transaction that already failed is rejected without a constraint
\* ("current transaction is aborted").
InsertAnswers(rows, aborted, slug, url) ==
    IF aborted
    THEN {"aborted"}
    ELSE {"err"} \cup (IF Violated(rows, slug, url) # {}
                       THEN Violated(rows, slug, url)
                       ELSE {"ok"})

\* Mutant: the row is written whatever the answer.
Inserted_always(rows, kind, row) == rows \cup {row}

\* The table after an INSERT outside a transaction: the row is added iff the
\* statement succeeded.
Inserted(rows, kind, row) == IF kind = "ok" THEN rows \cup {row} ELSE rows

StoreInsert(t) ==
    /\ task[t].pc = "inserting"
    /\ \/ tx[t].aborted
       \/ Violated(store, task[t].slug, task[t].url) # {}
       \/ Violated(PendingOthers(t), task[t].slug, task[t].url) = {}
    /\ \E kind \in InsertAnswers(store, tx[t].aborted, task[t].slug, task[t].url) :
        /\ task' = [task EXCEPT ![t].pc = "inserted", ![t].res = Res(kind),
                                ![t].last = kind]
        /\ IF tx[t].open
           THEN /\ store' = store
                /\ tx' = [tx EXCEPT ![t].aborted = @ \/ kind # "ok",
                            ![t].pending =
                                IF kind = "ok"
                                THEN {Row(task[t].slug, task[t].url, task[t].hidden)}
                                ELSE {}]
           ELSE /\ tx' = tx
                /\ store' = Inserted(store, kind,
                                Row(task[t].slug, task[t].url, task[t].hidden))
    /\ resp' = NoResp
    /\ UNCHANGED <<rev, cache, http_requests, cache_hits, cache_misses,
                   created, nreq, received>>

\* generate/register after the INSERT's await.
CreateMatch(t, stream) ==
    /\ task[t].pc = "inserted"
    /\ LET next == generate_match(rev, task[t].res.kind, task[t].retries)
       IN CASE next = "retry" ->
                 /\ task' = [task EXCEPT ![t].pc = "inserting", ![t].res = NoRes,
                                ![t].retries = @ + 1,
                                ![t].slug = from_rng(stream)]
                 /\ resp' = NoResp
                 /\ UNCHANGED <<cache, created, tx>>
            [] next = "commit" ->
                 /\ stream = CHOOSE x \in RngStreams : TRUE
                 /\ task' = [task EXCEPT ![t].pc = "committing", ![t].res = NoRes]
                 /\ resp' = NoResp
                 /\ UNCHANGED <<cache, created, tx>>
            [] next = "insert" ->
                 /\ stream = CHOOSE x \in RngStreams : TRUE
                 /\ cache' = generate_cache(cache, task[t].slug, task[t].url,
                                            task[t].hidden)
                 /\ created' = created \cup
                        {Row(task[t].slug, task[t].url, task[t].hidden)}
                 /\ resp' = Response(task[t],
                                     FormatLink(rev, HostName, task[t].slug))
                 /\ task' = [task EXCEPT ![t] = IdleTask]
                 /\ tx' = tx
            [] OTHER ->
                 /\ stream = CHOOSE x \in RngStreams : TRUE
                 /\ resp' = Response(task[t], Err(next))
                 /\ task' = [task EXCEPT ![t] = IdleTask]
                 \* the handler returns: the transaction is dropped
                 /\ tx' = [tx EXCEPT ![t] = NoTx]
                 /\ UNCHANGED <<cache, created>>
    /\ UNCHANGED <<rev, store, http_requests, cache_hits, cache_misses, nreq,
                   received>>

\* The store runs COMMIT; it may fail, and then nothing is committed.
StoreCommit(t) ==
    /\ task[t].pc = "committing"
    /\ \E ok \in BOOLEAN :
        /\ task' = [task EXCEPT ![t].pc = "committed",
                        ![t].res = Res(IF ok THEN "ok" ELSE "err"),
                        ![t].last = IF ok THEN "commit" ELSE "err"]
        /\ store' = IF ok THEN store \cup tx[t].pending ELSE store
        /\ tx' = [tx EXCEPT ![t] = NoTx]
    /\ resp' = NoResp
    /\ UNCHANGED <<rev, cache, http_requests, cache_hits, cache_misses,
                   created, nreq, received>>

\* main.rs generate after tx.commit().await.
GenerateCommitted(t) ==
    /\ task[t].pc = "committed"
    /\ IF task[t].res.kind = "ok"
       THEN /\ cache' = generate_cache(cache, task[t].slug, task[t].url,
                                       task[t].hidden)
            /\ created' = created \cup
                    {Row(task[t].slug, task[t].url, task[t].hidden)}
            /\ resp' = Response(task[t],
                                FormatLink(rev, HostName, task[t].slug))
       ELSE /\ resp' = Response(task[t], Err(commit_failed))
            /\ UNCHANGED <<cache, created>>
    /\ task' = [task EXCEPT ![t] = IdleTask]
    /\ UNCHANGED <<rev, store, tx, http_requests, cache_hits, cache_misses,
                   nreq, received>>

\* ------------------------------------------------------------- environment
\* The request's task is dropped at a suspension point (the client went
\* away): nothing after the await runs; an open transaction rolls back.
Cancel(t) ==
    /\ ~Free(t)
    /\ task' = [task EXCEPT ![t] = IdleTask]
    /\ tx' = [tx EXCEPT ![t] = NoTx]
    /\ resp' = NoResp
    /\ UNCHANGED <<rev, store, cache, http_requests, cache_hits, cache_misses,
                   created, nreq, received>>

\* The cache drops an entry (capacity, TinyLFU admission).
Evict(slug) ==
    /\ slug \in DOMAIN cache
    /\ cache' = CacheRemove(cache, slug)
    /\ resp' = NoResp
    /\ UNCHANGED <<rev, store, tx, http_requests, cache_hits, cache_misses,
                   task, created, nreq, received>>

Next ==
    \/ \E t \in Tasks, text \in PathTexts : ResolveStart(t, text)
    \/ \E t \in Tasks : StoreSelect(t)
    \/ \E t \in Tasks : ResolveFinish(t)
    \/ \E t \in Tasks, raw \in RawUrls : ReverseStart(t, raw)
    \/ \E t \in Tasks : ReverseFinish(t)
    \/ Metrics
    \/ \E t \in Tasks, raw \in RawUrls, hidden \in BOOLEAN, stream \in RngStreams :
            CreateStart(t, raw, hidden, stream)
    \/ \E t \in Tasks : StoreBegin(t)
    \/ \E t \in Tasks, stream \in RngStreams : GenerateBegun(t, stream)
    \/ \E t \in Tasks : StoreInsert(t)
    \/ \E t \in Tasks, stream \in RngStreams : CreateMatch(t, stream)
    \/ \E t \in Tasks : StoreCommit(t)
    \/ \E t \in Tasks : GenerateCommitted(t)
    \/ \E t \in Tasks : Cancel(t)
    \/ \E slug \in Slugs : Evict(slug)

Spec == Init /\ [][Next]_vars

\* ================================================================== claims
\* The last step sent the response of a request of this kind.
Done(op) == resp.op = op /\ resp.pc = "done"
Status == resp.result.status

\* Task t took a step of its own that was not its cancellation.
Stepped(t) == task'[t] # task[t] /\ (task'[t] = IdleTask => resp' # NoResp)

\* C1: every cache entry (slug -> url, hidden) equals a row already committed
\* in the store for that slug, in every reachable state.
C1_CacheReflectsStore ==
    \A s \in DOMAIN cache : Row(s, cache[s].url, cache[s].hidden) \in store

\* C1 witness: the cache holds an entry while another create has inserted a
\* row that is not committed yet, and that row is not in the cache.
C1_Witness ==
    \E s \in DOMAIN cache, t \in Tasks :
        /\ tx[t].pending # {}
        /\ \A r \in tx[t].pending : r.slug \notin DOMAIN cache

\* C2: a resolve of a slug that a successful create returned before it began
\* answers that create's url, from the cache or from the store, unless its
\* store query failed; a cache entry of such a slug holds that url.
C2_ResolveAgrees ==
    /\ \A r \in created :
          (Done("resolve") /\ resp.after /\ resp.slug = r.slug) =>
             \/ Status = "OK" /\ resp.result.url = r.url
             \/ Status = "SERVICE_UNAVAILABLE" /\ resp.last = "err"
    /\ \A r \in created :
          r.slug \in DOMAIN cache => cache[r.slug].url = r.url

\* C2 witness: a resolve that began after the create, missed the cache (the
\* entry had been evicted), was answered from the store and cached again.
C2_Witness ==
    /\ Done("resolve") /\ resp.after /\ ~resp.hit
    /\ Status = "OK"
    /\ resp.slug \in DOMAIN cache

UniqueUrls(rows) == \A r1, r2 \in rows : r1.url = r2.url => r1 = r2
UniqueSlugs(rows) == \A r1, r2 \in rows : r1.slug = r2.slug => r1 = r2

\* C3 as stated: a create of an already-registered url whose store calls did
\* not fail ends with Conflict.
C3_Original ==
    (Done("create") /\ resp.after /\ resp.last \notin {"err", "aborted"}) =>
        Status = "CONFLICT"

\* C3 amended: the store never holds two rows with one url, no two successful
\* creates returned different slugs for one url, and a create of an
\* already-registered url never succeeds: it ends with Conflict when the
\* insert reports the url constraint, and with Unavailable when the store
\* fails or the last allowed insert reports the primary key.
C3_NoSecondSlug ==
    /\ UniqueUrls(store)
    /\ UniqueUrls(created)
    /\ (Done("create") /\ resp.after) =>
          \/ Status = "CONFLICT" /\ resp.last = "links_url_key"
          \/ /\ Status = "SERVICE_UNAVAILABLE"
             /\ \/ resp.last \in {"err", "aborted"}
                \/ /\ resp.last = "links_pkey"
                   /\ resp.retries = RetryBound(rev)

\* C3 witness: a create of a url that an earlier create registered and
\* returned ended with Conflict.
C3_Witness ==
    /\ Done("create") /\ resp.after
    /\ Status = "CONFLICT"
    /\ \E r \in created : r.url = resp.url

\* Primary-key conflicts a finished create has met.
PkConflicts == resp.retries + (IF resp.last = "links_pkey" THEN 1 ELSE 0)

\* C4 (revisions lib and server): a finished create that met neither a url
\* conflict nor a store failure succeeded if it met at most RetriesLib
\* primary-key conflicts and ended with Unavailable if it met more; the
\* slugs of the store and of the successful creates are pairwise distinct.
C4_DistinctSlugs ==
    rev \in {"lib", "server"} =>
        /\ UniqueSlugs(store)
        /\ UniqueSlugs(created)
        /\ (/\ Done("create")
            /\ resp.url # NoUrl
            /\ resp.last \notin {"err", "links_url_key"}) =>
              /\ PkConflicts <= RetriesLib =>
                    /\ Status = "OK"
                    /\ Row(resp.result.slug, resp.url, resp.hidden) \in store
                    /\ Row(resp.result.slug, resp.url, resp.hidden) \in created
              /\ PkConflicts > RetriesLib => Status = "SERVICE_UNAVAILABLE"

\* C4 witness: two creates of different urls were in flight with the same
\* candidate slug; the store accepted one and reported the primary key to
\* the other, which now succeeds with another slug.
C4_Witness ==
    /\ rev \in {"lib", "server"}
    /\ Done("create") /\ Status = "OK" /\ resp.retries > 0
    /\ \E t \in Tasks, r \in store :
        /\ task[t].op = "create" /\ task[t].pc = "inserted"
        /\ task[t].res.kind = "ok"
        /\ task[t].url # resp.url
        /\ r.slug = task[t].slug /\ r.url = task[t].url
        /\ r.slug # resp.result.slug

\* What is left of a create: two steps for every insert still allowed, one
\* less once the store has answered, nothing once it is over.
Measure(rec) ==
    CASE rec.pc = "inserting" -> 2 * (RetriesLib - rec.retries) + 2
      [] rec.pc = "inserted" -> 2 * (RetriesLib - rec.retries) + 1
      [] OTHER -> 0

C5_Step ==
    rev \in {"lib", "server"} =>
        \A t \in Tasks :
            (task[t].op = "create" /\ task'[t] # task[t]) =>
                /\ Measure(task'[t]) < Measure(task[t])
                /\ Measure(task'[t]) >= 0
                /\ task'[t].retries <= RetriesLib
                /\ (task'[t].pc = "inserting") =>
                        /\ task[t].pc = "inserted"
                        /\ task[t].res.kind = "links_pkey"
                        /\ task'[t].retries = task[t].retries + 1
                /\ (/\ task[t].pc = "inserted"
                    /\ task[t].res.kind = "links_pkey"
                    /\ task[t].retries = RetriesLib
                    /\ Stepped(t)) =>
                        /\ task'[t] = IdleTask
                        /\ resp'.pc = "done"
                        /\ resp'.result.status = "SERVICE_UNAVAILABLE"

\* C5 (revisions lib and server): create terminates: every step of a create
\* strictly lowers Measure, which is never negative; retries never exceeds
\* RetriesLib (at most RetriesLib + 1 inserts); retries grows, and a new
\* candidate is inserted, only after a primary-key conflict; a primary-key
\* conflict met with retries = RetriesLib ends the create with Unavailable.
C5_BoundedRetries == [][ C5_Step ]_vars

\* C5 witness: a create ended with Unavailable after RetriesLib retries and a
\* primary-key conflict on its last insert.
C5_Witness ==
    /\ rev \in {"lib", "server"}
    /\ Done("create")
    /\ resp.retries = RetriesLib
    /\ resp.last = "links_pkey"
    /\ Status = "SERVICE_UNAVAILABLE"

C6_Step ==
    \A t \in Tasks :
        /\ (/\ task[t].pc = "inserting" /\ task'[t].pc = "inserted"
            /\ task'[t].res.kind # "ok") => store' = store
        /\ (/\ task[t].pc = "inserted"
            /\ task[t].res.kind \in {"links_url_key", "err"}
            /\ Stepped(t)) =>
                /\ task'[t] = IdleTask
                /\ resp'.pc = "done"
                /\ resp'.retries = task[t].retries
                /\ resp'.result.status =
                        IF task[t].res.kind = "links_url_key"
                        THEN "CONFLICT" ELSE "SERVICE_UNAVAILABLE"
                /\ store' = store
                /\ cache' = cache
                /\ created' = created

\* C6: a create whose insert reports the url constraint ends at once with
\* Conflict, one whose insert fails otherwise ends at once with Unavailable;
\* the failed insert adds no row, and the step that ends the create inserts
\* nothing and leaves store, cache and the returned rows unchanged.
C6_NoRetryOnUrlConflict == [][ C6_Step ]_vars

\* C6 witness: a create ended with Conflict while the slug that holds its url
\* is still in the cache.
C6_Witness ==
    \E r \in store :
        /\ Done("create") /\ Status = "CONFLICT"
        /\ r.url = resp.url
        /\ r.slug \in DOMAIN cache

Total(family) ==
    LET RECURSIVE Sum(_)
        Sum(ls) == IF ls = {} THEN 0
                   ELSE LET l == CHOOSE x \in ls : TRUE
                        IN family[l] + Sum(ls \ {l})
    IN Sum(DOMAIN family)

C7_Step ==
    \A t \in Tasks :
        /\ (/\ task[t].op = "resolve" /\ task[t].pc = "fetched"
            /\ task[t].res.kind = "none"
            /\ Stepped(t)) =>
                /\ resp'.pc = "done"
                /\ resp'.slug = task[t].slug
                /\ resp'.result.status = "NOT_FOUND"
                /\ cache' = cache
        /\ (/\ task'[t].op = "resolve" /\ task'[t].pc = "query"
            /\ task[t].pc # "query"
            /\ rev \in {"lib", "server"}) =>
                Total(cache_misses') = Total(cache_misses) + 1
        /\ (/\ resp'.op = "resolve" /\ resp'.pc = "done" /\ resp'.after) =>
                resp'.result.status # "NOT_FOUND"

\* C7: a resolve whose query found no row ends with NotFound and leaves the
\* cache as it is; in the revisions with a cache-miss counter (lib, server)
\* the resolve that goes to the store has incremented it by one; and a
\* resolve that began after a create returned its slug is never NotFound.
C7_NotFoundNotCached == [][ C7_Step ]_vars

\* C7 witness: a resolve of a slug ends with NotFound after its miss was
\* counted; the cache has no entry for the slug, although a create has
\* committed a row for it in the meantime (the next resolve finds it).
C7_Witness ==
    /\ Done("resolve") /\ Status = "NOT_FOUND"
    /\ resp.slug \notin DOMAIN cache
    /\ \E r \in store : r.slug = resp.slug
    /\ Total(cache_misses) > 0

C8_Step ==
    \A t \in Tasks :
        (/\ task[t].op \in {"resolve", "reverse"} /\ task[t].pc = "fetched"
         /\ Stepped(t)) =>
            /\ task[t].res.kind = "err" =>
                    /\ resp'.pc = "done"
                    /\ resp'.result.status = "SERVICE_UNAVAILABLE"
                    /\ cache' = cache
            /\ resp'.result.status = "NOT_FOUND" => task[t].res.kind = "none"

\* C8: when the store query of resolve or reverse fails, the request ends
\* with Unavailable and the cache is left as it is; NotFound is answered
\* only when the store said that no row matches.
C8_StoreErrorUnavailable == [][ C8_Step ]_vars

\* C8 witness: a reverse lookup of a registered url ended with Unavailable
\* because its query failed.
C8_Witness ==
    /\ Done("reverse") /\ resp.last = "err"
    /\ Status = "SERVICE_UNAVAILABLE"
    /\ \E r \in store : r.url = resp.url

\* C9 as stated: every request that fails ends with NotFound, Conflict or
\* Unavailable.
C9_OnlyThreeErrorKinds ==
    resp.pc = "done" =>
        Status \in {"OK", "NOT_FOUND", "CONFLICT", "SERVICE_UNAVAILABLE"}

\* C10: a reverse lookup of a url that began after a create of that url
\* returned answers the slug that create returned (the slug of the url's
\* row), unless its store query failed.
C10_ReverseAfterCreate ==
    (resp.op = "reverse" /\ resp.pc \in {"done", "panicked"} /\ resp.after) =>
        /\ resp.pc = "done"
        /\ \/ /\ Status = "OK"
              /\ \E r \in created :
                    r.slug = resp.result.slug /\ r.url = resp.url /\ r \in store
           \/ Status = "SERVICE_UNAVAILABLE" /\ resp.last = "err"

\* C10 witness: a reverse lookup answered the slug of its url while the store
\* holds a second row, created in between.
C10_Witness ==
    /\ Done("reverse") /\ resp.after /\ Status = "OK"
    /\ Cardinality(store) >= 2

\* C11: a resolve whose slug is in the cache when the handler looks it up is
\* answered in that step with the cached target: it has seen no store answer
\* and never waits for the store, so no task that waits for the store or
\* holds a store answer is a resolve of a slug that was cached.
C11_HitWithoutStore ==
    /\ (resp.op = "resolve" /\ resp.cached) =>
            /\ resp.pc = "done" /\ resp.hit
            /\ Status = "OK"
            /\ resp.last = "no"
            /\ resp.slug \in DOMAIN cache
            /\ resp.result.url = cache[resp.slug].url
    /\ \A t \in Tasks : task[t].op = "resolve" => ~task[t].cached

\* C11 witness: a resolve is answered from the cache while the store is
\* failing the query of another request.
C11_Witness ==
    /\ Done("resolve") /\ resp.cached /\ Status = "OK"
    /\ \E t \in Tasks : task[t].pc = "fetched" /\ task[t].res.kind = "err"

\* The slugs that label the resolve counters of a family.
ResolveLabels(family) ==
    {l.slug : l \in {x \in DOMAIN family : x.handler = "resolve"}}

\* C12: for every slug, the request counter labelled (resolve, slug) equals
\* the number of resolve requests received for that slug, whatever became of
\* them; a resolve that waits for the store, holds its answer or has been
\* answered is already counted.
C12_ResolveCounted ==
    /\ \A s \in DOMAIN received \cup ResolveLabels(http_requests) :
            Count(http_requests, Labels("resolve", s)) = Count(received, s)
    /\ \A t \in Tasks :
            task[t].op = "resolve" =>
                Count(http_requests, Labels("resolve", task[t].slug)) >= 1
    /\ Done("resolve") =>
            Count(http_requests, Labels("resolve", resp.slug)) >= 1

\* C12 witness: a resolve ends with Unavailable while another resolve of the
\* same slug still waits for the store: both are counted.
C12_Witness ==
    /\ Done("resolve") /\ Status = "SERVICE_UNAVAILABLE"
    /\ \E t \in Tasks :
            /\ task[t].op = "resolve" /\ task[t].pc = "query"
            /\ task[t].slug = resp.slug
    /\ Count(http_requests, Labels("resolve", resp.slug)) >= 2

\* C13 as stated: a reverse lookup that has been answered (with the slug,
\* NotFound or Unavailable) and a create that has been answered (with the
\* link, Conflict or Unavailable) have incremented a request counter
\* labelled by their operation.
C13_ReverseAndCreateCounted ==
    /\ Done("reverse") =>
            \E l \in DOMAIN http_requests : l.handler = "reverse"
    /\ (Done("create")
            /\ Status \in {"OK", "CONFLICT", "SERVICE_UNAVAILABLE"}) =>
            \E l \in DOMAIN http_requests :
                l.handler \notin {"resolve", "reverse"}

\* C14 as stated (revisions lib and server, which have the two counters):
\* every resolve the handler received has incremented exactly one of the
\* cache-hit and cache-miss counters, the cache-hit counter when it was
\* served from the cache and the cache-miss counter when it went to the store.
C14_HitOrMiss ==
    rev \in {"lib", "server"} =>
        /\ Total(cache_hits) + Total(cache_misses) = Total(received)
        /\ (Done("resolve") /\ resp.hit) => Total(cache_hits) >= 1
        /\ (Done("resolve") /\ ~resp.hit) => Total(cache_misses) >= 1

\* C15 as stated: only texts of exactly LENGTH characters become a Slug, so
\* every slug resolve counts, looks up or queries has LENGTH characters.
C15_ExactLength ==
    /\ \A t \in Tasks : task[t].op = "resolve" => Len(task[t].slug) = LENGTH
    /\ \A s \in DOMAIN received : Len(s) = LENGTH
    /\ Done("resolve") => Len(resp.slug) = LENGTH

\* C16 (revision server): every resolve that is answered with a redirect,
\* from the cache or from the store, answers the url and the visibility flag
\* of the row of its slug: indirect iff the link was created hidden; every
\* cache entry carries the flag of its row.
C16_HiddenSurfaced ==
    rev = "server" =>
        /\ (Done("resolve") /\ Status = "OK") =>
                \E r \in store :
                    /\ r.slug = resp.slug
                    /\ r.url = resp.result.url
                    /\ r.hidden = resp.result.indirect
        /\ \A r \in created :
                (Done("resolve") /\ Status = "OK" /\ resp.slug = r.slug) =>
                    resp.result.indirect = r.hidden
        /\ \A r \in store :
                r.slug \in DOMAIN cache => cache[r.slug].hidden = r.hidden

\* C16 witness: a hidden link whose cache entry had been evicted is answered
\* from the store with the indirect redirect, and is cached again as hidden.
C16_Witness ==
    /\ rev = "server"
    /\ Done("resolve") /\ resp.after /\ ~resp.hit
    /\ Status = "OK" /\ resp.result.indirect
    /\ resp.slug \in DOMAIN cache /\ cache[resp.slug].hidden

\* C17 as stated (revision main): a create that retried after a primary-key
\* conflict, and whose last insert met neither a constraint violation nor a
\* store outage, committed and succeeded.
C17_RetryInTransaction ==
    (/\ rev = "main"
     /\ Done("create")
     /\ resp.retries > 0
     /\ resp.last \notin {"err", "links_pkey", "links_url_key"}) =>
        /\ Status = "OK"
        /\ Row(resp.result.slug, resp.url, resp.hidden) \in store
        /\ resp.result.slug \in DOMAIN cache

C18_Step ==
    /\ store \subseteq store'
    /\ \A r \in store, n \in store' : n.slug = r.slug => n = r
    /\ store' # store =>
            \E t \in Tasks :
                /\ task[t].op = "create"
                /\ task[t].pc \in {"inserting", "committing"}
                /\ task'[t].pc \in {"inserted", "committed"}
                /\ task'[t].res.kind = "ok"
                /\ Row(task[t].slug, task[t].url, task[t].hidden) \notin store
                /\ store' = store \cup
                        {Row(task[t].slug, task[t].url, task[t].hidden)}
    /\ \A t \in Tasks :
            (/\ task[t].pc \in {"inserting", "committing"}
             /\ task'[t].pc \in {"inserted", "committed"}
             /\ task'[t].res.kind # "ok") => store' = store

\* C18: no step removes or changes a row; the store changes only in the step
\* in which the store accepts the insert (the commit, in main.rs) of a
\* create, and then by exactly the one new row (candidate, url, hidden); an
\* insert or commit that fails leaves the store as it is, and so does every
\* step of resolve, of reverse, of cancellation and of eviction.
C18_WriteOnce == [][ C18_Step ]_vars

\* C18 witness: after two creates, the eviction of both cache entries and a
\* create that ended with Conflict, the store holds exactly the two rows
\* that were returned.
C18_Witness ==
    /\ Done("create") /\ Status = "CONFLICT"
    /\ Cardinality(store) >= 2
    /\ created = store
    /\ DOMAIN cache = {}

WellFormed(slug) ==
    /\ Len(slug) = LENGTH
    /\ \A i \in 1..Len(slug) : slug[i] \in Alphanumeric

\* C19: every candidate a create inserts, every slug of a row (committed,
\* pending in a transaction or returned), every cache key and every slug a
\* create answers has exactly LENGTH symbols, all of them alphanumeric.
C19_GeneratedSlugs ==
    /\ \A r \in store \cup created \cup UNION {tx[t].pending : t \in Tasks} :
            WellFormed(r.slug)
    /\ \A t \in Tasks :
            (task[t].op = "create" /\ task[t].pc \notin {"beginning", "begun"})
                => WellFormed(task[t].slug)
    /\ \A s \in DOMAIN cache : WellFormed(s)
    /\ (Done("create") /\ Status = "OK") => WellFormed(resp.result.slug)

\* C19 witness: a create that generated a second candidate after a
\* primary-key conflict committed it, cached it and returned it.
C19_Witness ==
    /\ Done("create") /\ Status = "OK" /\ resp.retries > 0
    /\ resp.result.slug \in DOMAIN cache
    /\ \E r \in store : r.slug = resp.result.slug

\* C20: no request ends in a panic: the slug of every row in the store, and
\* of every row a reverse lookup has fetched, converts into a Slug.
C20_ReverseNeverPanics ==
    /\ resp.pc # "panicked"
    /\ \A r \in store : try_from(r.slug) # {}
    /\ \A t \in Tasks :
            (task[t].op = "reverse" /\ task[t].res.kind = "row") =>
                try_from(task[t].res.slug) # {}

\* C20 witness: a reverse lookup converted the slug it fetched, counted the
\* request under it and answered it.
C20_Witness ==
    /\ rev \in {"lib", "server"}
    /\ Done("reverse") /\ Status = "OK"
    /\ Count(http_requests, Labels("reverse", resp.result.slug)) >= 1

C21_Step ==
    \A t \in Tasks :
        /\ ((task[t].op = "reverse" \/ task'[t].op = "reverse")
                /\ task'[t] # task[t]) => cache' = cache
        /\ (task[t].op = "reverse" /\ task[t].pc = "query"
                /\ task'[t].pc = "fetched") =>
                task'[t].res \in SelectByUrl(store, task[t].url) \cup {Res("err")}
        /\ (task[t].op = "reverse" /\ task[t].pc = "fetched" /\ Stepped(t)) =>
                /\ resp'.pc = "done"
                /\ resp'.result.status =
                        CASE task[t].res.kind = "row" -> "OK"
                          [] task[t].res.kind = "none" -> "NOT_FOUND"
                          [] OTHER -> "SERVICE_UNAVAILABLE"
                /\ resp'.result.slug =
                        IF task[t].res.kind = "row" THEN task[t].res.slug
                        ELSE NoSlug

\* C21: every step of a reverse lookup (its start, its query, its answer,
\* its cancellation) leaves the cache as it is; what the query fetches is
\* determined by the store and the url alone, and the answer by what was
\* fetched: the slug of the row, NotFound without a row, Unavailable when
\* the query failed.
C21_ReverseLeavesCache == [][ C21_Step ]_vars

\* C21 witness: a reverse lookup answered the slug of a link whose cache
\* entry had been evicted, and the slug is still not in the cache.
C21_Witness ==
    /\ Done("reverse") /\ Status = "OK"
    /\ resp.result.slug \notin DOMAIN cache
    /\ \E r \in created : r.slug = resp.result.slug

\* Every label set of f is in g with a value that is not lower.
Monotone(f, g) == \A l \in DOMAIN f : l \in DOMAIN g /\ g[l] >= f[l]

C22_Step ==
    /\ Monotone(http_requests, http_requests')
    /\ Monotone(cache_hits, cache_hits')
    /\ Monotone(cache_misses, cache_misses')
    /\ (resp'.op = "metrics" /\ resp'.pc = "done") =>
            /\ http_requests' = http_requests
            /\ cache_hits' = cache_hits
            /\ cache_misses' = cache_misses
            /\ resp'.result.body =
                    encode(rev, http_requests, cache_hits, cache_misses)

\* C22: in every step every counter of the three families keeps its label
\* set and a value that is not lower than before; the step that renders the
\* metrics snapshot answers the counters as they are and leaves all of them
\* unchanged.
C22_CountersMonotone == [][ C22_Step ]_vars

\* C22 witness: a snapshot is rendered that shows a counter which has been
\* incremented twice.
C22_Witness ==
    /\ Done("metrics")
    /\ \E x \in resp.result.body : x.value >= 2
    /\ \E l \in DOMAIN http_requests : http_requests[l] >= 2

\* The value a snapshot shows for a family and a label set (0 without a line).
SampleValue(body, name, labels) ==
    IF \E x \in body : x.name = name /\ x.labels = labels
    THEN (CHOOSE x \in body : x.name = name /\ x.labels = labels).value
    ELSE 0

\* C23 (revision lib, which counts hits and misses per slug): in every
\* state, for every resolve label set, the request counter is the sum of the
\* cache-hit and the cache-miss counter; every rendered snapshot shows the
\* same balance, also while resolves are in flight.
C23_Balanced ==
    rev = "lib" =>
        /\ \A l \in DOMAIN http_requests \cup DOMAIN cache_hits
                        \cup DOMAIN cache_misses :
                l.handler = "resolve" =>
                    Count(http_requests, l) =
                        Count(cache_hits, l) + Count(cache_misses, l)
        /\ Done("metrics") =>
                \A x \in resp.result.body :
                    x.labels.handler = "resolve" =>
                        SampleValue(resp.result.body, "linker_http_requests",
                                    x.labels) =
                            SampleValue(resp.result.body, "linker_cache_hits",
                                        x.labels)
                            + SampleValue(resp.result.body,
                                          "linker_cache_misses", x.labels)

\* C23 witness: a snapshot is rendered while a resolve that has counted its
\* miss still waits for the store.
C23_Witness ==
    /\ rev = "lib"
    /\ Done("metrics")
    /\ \E t \in Tasks :
            /\ task[t].op = "resolve" /\ task[t].pc = "query"
            /\ SampleValue(resp.result.body, "linker_cache_misses",
                           Labels("resolve", task[t].slug)) >= 1

\* C24: a create that ends with Conflict has been told by the store that the
\* url constraint is violated, which the store says only while it holds a
\* row with that url; a create whose last insert reported the primary key
\* never ends with Conflict; a create that succeeds has its row (returned
\* slug, url) in the store, and no other row has that slug or that url.
C24_NoSpuriousConflict ==
    /\ (Done("create") /\ Status = "CONFLICT") =>
            /\ resp.last = "links_url_key"
            /\ \E r \in store : r.url = resp.url
    /\ (Done("create") /\ resp.last = "links_pkey") => Status # "CONFLICT"
    /\ \A t \in Tasks :
            (task[t].pc = "inserted" /\ task[t].res.kind = "links_url_key") =>
                \E r \in store : r.url = task[t].url
    /\ (Done("create") /\ Status = "OK") =>
            /\ Row(resp.result.slug, resp.url, resp.hidden) \in store
            /\ \A r \in store :
                    (r.slug = resp.result.slug \/ r.url = resp.url) =>
                        r = Row(resp.result.slug, resp.url, resp.hidden)

\* C24 witness: a create of a registered url first collided on the slug
\* (primary key reported, retried) and then ended with Conflict on the url.
C24_Witness ==
    /\ Done("create") /\ Status = "CONFLICT"
    /\ resp.retries > 0
    /\ \E r \in store : r.url = resp.url /\ r.slug # resp.slug

====
